---- MODULE Spec2Model ----
(***************************************************************************)
(* A model of the Lamp device (lamp.js), the two power events (power.js),  *)
(* the static configuration (power_limits.js) and the living_room.js       *)
(* script that wires them together.                                        *)
(*                                                                         *)
(* Three specifications exercise one Lamp through arbitrary call           *)
(* sequences (Spec: every operation, any integer amount; NaturalSpec:      *)
(* every operation, amounts that are omitted or non-negative; LevelSpec:   *)
(* brighten and dim only), and DriverSpec runs living_room.js line by line.*)
(***************************************************************************)
EXTENDS Integers, Sequences, FiniteSets, TLC

VARIABLES
    powerLimits,        \* the object exported by power_limits.js
    currentBrightness,  \* myLamp.currentBrightness
    maxBrightness,      \* myLamp.maxBrightness
    console,            \* the lines written by console.log, oldest first
    lastCall,           \* the most recent call: its name and argument list
    pc                  \* line of living_room.js to run next; 0: no script

vars == <<powerLimits, currentBrightness, maxBrightness, console, lastCall, pc>>

----------------------------------------------------------------------------
(* Bounds of the model *)

\* largest configured maxBrightness explored by the free-running specifications
MaxConfigured == 5
\* largest |amount| passed to brighten / dim
MaxAmount == 3
\* how far brighten / dim with negative amounts may push the level outside
\* the range [0, SurgeFactor * MaxConfigured]
MaxExcursion == 2
\* most console lines written in the free-running specifications
MaxConsole == 3
\* largest configured maxBrightness explored by the living_room.js script
MaxDriverConfigured == 20

(* Program constants *)

\* power.js: device.maxBrightness * 10
SurgeFactor == 10

\* Lamp.name, read as device.constructor.name
ConstructorName == "Lamp"

----------------------------------------------------------------------------
(* console.log template literals.  A TLA+ string cannot hold a backquote, *)
(* so the two backquotes of the outage message are written as quotes.     *)

OutageMessage(name) ==
    "Uh-oh, " \o name \o
    "'s power is out. Try turning it on and checking its 'currentBrightness'."

SurgeMessage(name, brightness) ==
    name \o " is surging! Current brightness: " \o ToString(brightness)

BrightnessMessage(brightness) ==
    "myLamp's current brightness: " \o ToString(brightness)

----------------------------------------------------------------------------
(* lamp.js *)

\* new Lamp(maxBrightness)
Lamp(max) ==
    /\ currentBrightness = 0
    /\ maxBrightness = max
    /\ lastCall = [op |-> "Lamp", args |-> <<max>>]

\* a default applied only to an omitted amount (amount === undefined ? 1 : amount)
amountOrDefault_onlyOmitted(args) ==
    IF args = <<>> THEN 1 ELSE args[1]

\* `amount || 1`: args is the call's argument list, <<>> when amount is omitted
amountOrDefault(args) ==
    IF args = <<>> \/ args[1] = 0 THEN 1 ELSE args[1]

\* brighten without its upper clamp
brighten_unclamped(args) ==
    /\ currentBrightness' = currentBrightness + amountOrDefault(args)
    /\ lastCall' = [op |-> "brighten", args |-> args]
    /\ UNCHANGED <<powerLimits, maxBrightness, console>>

brighten(args) ==
    LET amount == amountOrDefault(args)
        raised == currentBrightness + amount
    IN  /\ currentBrightness' =
              IF raised > maxBrightness THEN maxBrightness ELSE raised
        /\ lastCall' = [op |-> "brighten", args |-> args]
        /\ UNCHANGED <<powerLimits, maxBrightness, console>>

\* dim without its lower clamp
dim_unclamped(args) ==
    /\ currentBrightness' = currentBrightness - amountOrDefault(args)
    /\ lastCall' = [op |-> "dim", args |-> args]
    /\ UNCHANGED <<powerLimits, maxBrightness, console>>

dim(args) ==
    LET amount == amountOrDefault(args)
        lowered == currentBrightness - amount
    IN  /\ currentBrightness' = IF lowered < 0 THEN 0 ELSE lowered
        /\ lastCall' = [op |-> "dim", args |-> args]
        /\ UNCHANGED <<powerLimits, maxBrightness, console>>

\* turnOff with outage's chained assignment
turnOff_zeroesCapacity ==
    /\ currentBrightness' = 0
    /\ maxBrightness' = 0
    /\ lastCall' = [op |-> "turnOff", args |-> <<>>]
    /\ UNCHANGED <<powerLimits, console>>

turnOff ==
    /\ currentBrightness' = 0
    /\ lastCall' = [op |-> "turnOff", args |-> <<>>]
    /\ UNCHANGED <<powerLimits, maxBrightness, console>>

\* turnOn that only ever raises the level
turnOn_onlyRaises ==
    /\ currentBrightness' =
          IF currentBrightness < maxBrightness THEN maxBrightness
                                               ELSE currentBrightness
    /\ lastCall' = [op |-> "turnOn", args |-> <<>>]
    /\ UNCHANGED <<powerLimits, maxBrightness, console>>

turnOn ==
    /\ currentBrightness' = maxBrightness
    /\ lastCall' = [op |-> "turnOn", args |-> <<>>]
    /\ UNCHANGED <<powerLimits, maxBrightness, console>>

----------------------------------------------------------------------------
(* power.js *)

\* outage that switches the lamp off and keeps its capacity
outage_keepsCapacity ==
    /\ currentBrightness' = 0
    /\ console' = Append(console, OutageMessage(ConstructorName))
    /\ lastCall' = [op |-> "outage", args |-> <<>>]
    /\ UNCHANGED <<powerLimits, maxBrightness>>

outage ==
    /\ maxBrightness' = 0
    /\ currentBrightness' = 0
    /\ console' = Append(console, OutageMessage(ConstructorName))
    /\ lastCall' = [op |-> "outage", args |-> <<>>]
    /\ UNCHANGED powerLimits

\* surge whose test is `>= 0`, so that a lamp that is off surges too
surge_onOffLamp ==
    /\ IF currentBrightness >= 0
         THEN /\ currentBrightness' = maxBrightness * SurgeFactor
              /\ console' = Append(console,
                     SurgeMessage(ConstructorName, maxBrightness * SurgeFactor))
         ELSE UNCHANGED <<currentBrightness, console>>
    /\ lastCall' = [op |-> "surge", args |-> <<>>]
    /\ UNCHANGED <<powerLimits, maxBrightness>>

\* surge whose console.log stands after the if block
surge_alwaysLogs ==
    /\ currentBrightness' =
          IF currentBrightness > 0 THEN maxBrightness * SurgeFactor
                                   ELSE currentBrightness
    /\ console' = Append(console,
                     SurgeMessage(ConstructorName, currentBrightness'))
    /\ lastCall' = [op |-> "surge", args |-> <<>>]
    /\ UNCHANGED <<powerLimits, maxBrightness>>

surge ==
    /\ IF currentBrightness > 0
         THEN /\ currentBrightness' = maxBrightness * SurgeFactor
              /\ console' = Append(console,
                     SurgeMessage(ConstructorName, maxBrightness * SurgeFactor))
         ELSE UNCHANGED <<currentBrightness, console>>
    /\ lastCall' = [op |-> "surge", args |-> <<>>]
    /\ UNCHANGED <<powerLimits, maxBrightness>>

----------------------------------------------------------------------------
(* living_room.js: console.log(`myLamp's current brightness: ...`) *)

logBrightness ==
    /\ console' = Append(console, BrightnessMessage(currentBrightness))
    /\ lastCall' = [op |-> "console.log", args |-> <<>>]
    /\ UNCHANGED <<powerLimits, currentBrightness, maxBrightness>>

----------------------------------------------------------------------------
(* Free-running client: any call, in any order, on one Lamp *)

Amounts == (0 - MaxAmount) .. MaxAmount

\* argument lists of brighten / dim: amount omitted, or any amount
Args == {<<>>} \cup {<<a>> : a \in Amounts}

\* the same with the amount omitted or non-negative
NaturalArgs == {<<>>} \cup {<<a>> : a \in 0 .. MaxAmount}

LevelInRange(level) ==
    /\ 0 - MaxExcursion <= level
    /\ level <= SurgeFactor * MaxConfigured + MaxExcursion

Init ==
    /\ powerLimits \in [type : {ConstructorName}, maxBrightness : 0 .. MaxConfigured]
    /\ Lamp(powerLimits.maxBrightness)
    /\ console = <<>>
    /\ pc = 0

CallBrighten(argLists) ==
    \E args \in argLists :
        /\ brighten(args)
        /\ LevelInRange(currentBrightness')
        /\ UNCHANGED pc

CallDim(argLists) ==
    \E args \in argLists :
        /\ dim(args)
        /\ LevelInRange(currentBrightness')
        /\ UNCHANGED pc

CallTurnOff == turnOff /\ UNCHANGED pc

CallTurnOn == turnOn /\ UNCHANGED pc

CallOutage ==
    /\ Len(console) < MaxConsole
    /\ outage
    /\ UNCHANGED pc

CallSurge ==
    /\ Len(console) < MaxConsole
    /\ surge
    /\ UNCHANGED pc

Next ==
    \/ CallBrighten(Args)
    \/ CallDim(Args)
    \/ CallTurnOff
    \/ CallTurnOn
    \/ CallOutage
    \/ CallSurge

Spec == Init /\ [][Next]_vars

NaturalNext ==
    \/ CallBrighten(NaturalArgs)
    \/ CallDim(NaturalArgs)
    \/ CallTurnOff
    \/ CallTurnOn
    \/ CallOutage
    \/ CallSurge

NaturalSpec == Init /\ [][NaturalNext]_vars

LevelNext ==
    \/ CallBrighten(Args)
    \/ CallDim(Args)

LevelSpec == Init /\ [][LevelNext]_vars

----------------------------------------------------------------------------
(* living_room.js, one statement per step *)

DriverInit ==
    /\ powerLimits \in
          [type : {ConstructorName}, maxBrightness : 0 .. MaxDriverConfigured]
    /\ Lamp(powerLimits.maxBrightness)
    /\ console = <<>>
    /\ pc = 7

Line7 == pc = 7 /\ turnOn /\ pc' = 9

Line9 == pc = 9 /\ logBrightness /\ pc' = 11

Line11 == pc = 11 /\ surge /\ pc' = 12

Line12 == pc = 12 /\ outage /\ pc' = 14

Line14 == pc = 14 /\ turnOn /\ pc' = 16

Line16 == pc = 16 /\ logBrightness /\ pc' = 17

DriverNext ==
    \/ Line7
    \/ Line9
    \/ Line11
    \/ Line12
    \/ Line14
    \/ Line16

DriverSpec == DriverInit /\ [][DriverNext]_vars

----------------------------------------------------------------------------
(* Vocabulary of the properties *)

LevelInvariant ==
    /\ 0 <= currentBrightness
    /\ currentBrightness <= maxBrightness

Min(a, b) == IF a <= b THEN a ELSE b

Max(a, b) == IF a >= b THEN a ELSE b

\* the amount a call is documented to apply: the one given when it is given
\* and non-zero, 1 otherwise
EffectiveAmount(args) == IF Len(args) = 1 /\ args[1] # 0 THEN args[1] ELSE 1

Logged(line) == \E i \in DOMAIN console : console[i] = line

PowerIsOut == Logged(OutageMessage("Lamp"))

HasSurged == \E i \in DOMAIN console : console[i] # OutageMessage("Lamp")

Configured == powerLimits.maxBrightness

----------------------------------------------------------------------------
C2_ClampingInvariant ==
    lastCall.op \in {"Lamp", "brighten", "dim"} =>
        (currentBrightness >= 0 /\ maxBrightness >= currentBrightness)

\* C3: surge changes the lamp exactly when its level is positive: the level
\* becomes 10 * maxBrightness then, stays what it was otherwise, and
\* maxBrightness stays what it was in both cases.
C3_SurgeEffect ==
    [][lastCall'.op = "surge" =>
          /\ maxBrightness' = maxBrightness
          /\ currentBrightness > 0 => currentBrightness' = 10 * maxBrightness
          /\ ~(currentBrightness > 0) => currentBrightness' = currentBrightness
      ]_vars

\* C3 witness: surge has acted on a lit lamp (level 10 * max, max untouched).
C3_Witness ==
    /\ lastCall.op = "surge"
    /\ maxBrightness = Configured
    /\ maxBrightness > 0
    /\ currentBrightness = 10 * maxBrightness

\* C4: outage leaves level and maximum at 0; once the power is out the
\* maximum is 0 after every later operation, and every later turnOn leaves the
\* level at 0.
C4_OutageIrreversible ==
    [][/\ lastCall'.op = "outage" =>
              (currentBrightness' = 0 /\ maxBrightness' = 0 /\ PowerIsOut')
       /\ PowerIsOut => (PowerIsOut' /\ maxBrightness' = 0)
       /\ (PowerIsOut /\ lastCall'.op = "turnOn") => currentBrightness' = 0
      ]_vars

\* C4 witness: a lamp configured with a positive maximum is turned on after an
\* outage and stays dark.
C4_Witness ==
    /\ PowerIsOut
    /\ Configured > 0
    /\ lastCall.op = "turnOn"
    /\ currentBrightness = 0

\* C5: from every state, brighten sets the level to
\* min(level + a, maxBrightness), a being the amount when it is given and
\* non-zero and 1 otherwise, and touches nothing else of the lamp.
C5_BrightenEffect ==
    [][lastCall'.op = "brighten" =>
          /\ currentBrightness' =
                Min(currentBrightness + EffectiveAmount(lastCall'.args),
                    maxBrightness)
          /\ maxBrightness' = maxBrightness
      ]_vars

\* C5 witness: brighten(0) right after construction has raised the level by 1.
C5_Witness ==
    /\ lastCall = [op |-> "brighten", args |-> <<0>>]
    /\ console = <<>>
    /\ Configured > 1
    /\ currentBrightness = 1

\* C6: from every state, dim sets the level to max(level - a, 0), a being the
\* amount when it is given and non-zero and 1 otherwise, and touches nothing
\* else of the lamp.
C6_DimEffect ==
    [][lastCall'.op = "dim" =>
          /\ currentBrightness' =
                Max(currentBrightness - EffectiveAmount(lastCall'.args), 0)
          /\ maxBrightness' = maxBrightness
      ]_vars

\* C6 witness: dim(0) after a surge has lowered the level by 1.
C6_Witness ==
    /\ lastCall = [op |-> "dim", args |-> <<0>>]
    /\ maxBrightness > 0
    /\ currentBrightness = 10 * maxBrightness - 1

\* C7: after turnOff the level is 0, and after turnOn it is maxBrightness,
\* whatever happened before.
C7_TurnOffTurnOn ==
    /\ lastCall.op = "turnOff" => currentBrightness = 0
    /\ lastCall.op = "turnOn" => currentBrightness = maxBrightness

\* C7 witness: turnOn after a surge has brought the level back to a positive
\* maximum.
C7_Witness ==
    /\ lastCall.op = "turnOn"
    /\ HasSurged
    /\ ~PowerIsOut
    /\ currentBrightness = maxBrightness
    /\ maxBrightness > 0

\* C8 (as stated): every call of outage and every call of surge writes
\* exactly one line to the console.
C8_OneLinePerCall ==
    [][lastCall'.op \in {"outage", "surge"} =>
          Len(console') = Len(console) + 1
      ]_vars

\* C8 (amended): every call of outage writes exactly one line, the outage
\* message; a call of surge writes exactly one line, the surge message with
\* the new level, when the level was positive, and nothing otherwise.
C8_OneLinePerEffectiveCall ==
    [][/\ lastCall'.op = "outage" =>
              console' = Append(console, OutageMessage("Lamp"))
       /\ (lastCall'.op = "surge" /\ currentBrightness > 0) =>
              console' = Append(console, SurgeMessage("Lamp", currentBrightness'))
       /\ (lastCall'.op = "surge" /\ currentBrightness <= 0) =>
              console' = console
      ]_vars

\* C8 witness: surge has been called on a lamp that is off and nothing has
\* been written.
C8_Witness ==
    /\ lastCall.op = "surge"
    /\ currentBrightness = 0
    /\ maxBrightness > 0
    /\ console = <<>>

\* C9: with a configured maximum M > 0, living_room.js goes through: level 0
\* at construction; M after the first turnOn, which is the first value
\* printed; 10 * M after surge, with the surge message; level 0 and maximum 0
\* after outage, with the outage message after the surge message; level 0
\* after the second turnOn, which is the second value printed.
C9_DriverRun ==
    Configured > 0 =>
        LET M == Configured
            printed1 == BrightnessMessage(M)
            surged == SurgeMessage("Lamp", 10 * M)
            out == OutageMessage("Lamp")
            printed2 == BrightnessMessage(0)
        IN  /\ pc = 7 => /\ currentBrightness = 0 /\ maxBrightness = M
                         /\ console = <<>>
            /\ pc = 9 => /\ currentBrightness = M /\ maxBrightness = M
                         /\ console = <<>>
            /\ pc = 11 => /\ currentBrightness = M /\ maxBrightness = M
                          /\ console = <<printed1>>
            /\ pc = 12 => /\ currentBrightness = 10 * M /\ maxBrightness = M
                          /\ console = <<printed1, surged>>
            /\ pc = 14 => /\ currentBrightness = 0 /\ maxBrightness = 0
                          /\ console = <<printed1, surged, out>>
            /\ pc = 16 => /\ currentBrightness = 0 /\ maxBrightness = 0
                          /\ console = <<printed1, surged, out>>
            /\ pc = 17 => /\ currentBrightness = 0 /\ maxBrightness = 0
                          /\ console = <<printed1, surged, out, printed2>>
            /\ pc \in {7, 9, 11, 12, 14, 16, 17}

\* C9 witness: the script has run to its end with the maximum configured in
\* power_limits.js, 20, and has printed 20, the surge to 200, the outage and 0.
C9_Witness ==
    /\ pc = 17
    /\ Configured = 20
    /\ console[1] = "myLamp's current brightness: 20"
    /\ console[2] = "Lamp is surging! Current brightness: 200"
    /\ console[4] = "myLamp's current brightness: 0"

\* C10: only outage changes maxBrightness, so maxBrightness is the configured
\* maximum until the first outage and 0 from then on.
C10_MaxFixedUntilOutage ==
    /\ [](maxBrightness = IF PowerIsOut THEN 0 ELSE Configured)
    /\ [][lastCall'.op # "outage" => maxBrightness' = maxBrightness]_vars

\* C10 witness: after a surge and a later dim the maximum is still the
\* positive configured one.
C10_Witness ==
    /\ lastCall.op = "dim"
    /\ HasSurged
    /\ ~PowerIsOut
    /\ maxBrightness = Configured
    /\ Configured > 0

====
